---- MODULE Spec2Model ----
(***************************************************************************)
(* Server-lifecycle supervision of actions.py: find_available_port,        *)
(* start_action_server (launcher + log-tailing poller) and                 *)
(* stop_action_server (remote shutdown client), together with the opaque   *)
(* child process and the other processes of the machine they talk to.      *)
(***************************************************************************)
EXTENDS Integers, Sequences, FiniteSets, TLC

\* ---------------------------------------------------------------- bounds
MaxBusyOffset == 0   \* other processes bind ports start_port .. start_port + MaxBusyOffset
MaxProbeOffset == 3  \* find_available_port is followed up to start_port + MaxProbeOffset
MaxLogLen == 2       \* lines the log file can hold
MaxPipeLen == 1      \* chunks the child writes to each of its pipes
MaxSleep == 2        \* seconds a time.sleep(1.0) takes at most
MaxStopCalls == 3    \* stop_action_server calls made by the user

\* ------------------------------------------------------ program constants
start_port == 8080
timeout == 60

BusyPorts == start_port .. (start_port + MaxBusyOffset)
ProbePorts == start_port .. (start_port + MaxProbeOffset)
UrlPorts == start_port .. (start_port + MaxBusyOffset + 1)
PackageNames == {"pkgA"}
Secrets == "{}"

\* ------------------------------------------------------------ text model
\* A line of text is a sequence of fragments; `x in line` is a search for
\* the fragment.  The fragments of interest are the base URL of a port and
\* the error marker; every other text is the NoiseTok fragment.
UrlTok(p) == [text |-> "http://localhost:", port |-> p]
ErrTok == [text |-> "Error executing action-server", port |-> 0]
NoiseTok == [text |-> "INFO", port |-> 0]

Contains(line, tok) == \E i \in DOMAIN line : line[i] = tok

LogLines ==
    {<<NoiseTok>>, <<ErrTok>>, <<NoiseTok, UrlTok(start_port), ErrTok>>}
        \cup {<<NoiseTok, UrlTok(p)>> : p \in UrlPorts}

RECURSIVE SeqsUpTo(_, _)
SeqsUpTo(S, n) ==
    IF n = 0 THEN {<<>>}
    ELSE LET shorter == SeqsUpTo(S, n - 1)
         IN  shorter \cup {Append(s, x) : s \in {t \in shorter : Len(t) = n - 1}, x \in S}

\* ------------------------------------------------------------- the state
VARIABLES
    action_package_name, \* argument of start_action_server
    dirExists,           \* os.path.exists(full_action_path)
    bound,               \* loopback ports bound by other processes
    pc,                  \* position of the single thread of control
    probe_start,         \* find_available_port: its start_port argument
    port,                \* find_available_port: candidate port
    sock,                \* find_available_port: port held by the probing socket, 0 if none
    probes,              \* bind attempts made by find_available_port
    available_port,      \* result of find_available_port, 0 before
    child,               \* "none" | "starting" | "serving" | "exited"
    childArgs,           \* argv handed to the helper script
    start_time,          \* time.time() taken after Popen
    now,                 \* wall clock, whole seconds
    logExists,           \* log_path.exists()
    log,                 \* lines of {directory}/action_server.log
    staleLen,            \* lines the log held when the child was spawned
    outPipe, errPipe,    \* chunks written by the child to stdout / stderr
    result,              \* value returned by start_action_server
    tick,                \* what the deciding poll tick saw
    logRead,             \* the log file has been opened
    drained,             \* the child's pipes have been read
    requests,            \* HTTP requests sent, in order
    stopCalls,           \* stop_action_server calls made by the user
    lastStop             \* outcome and result of the latest such call

vars == <<action_package_name, dirExists, bound, pc, probe_start, port, sock, probes,
          available_port, child, childArgs, start_time, now, logExists, log,
          staleLen, outPipe, errPipe, result, tick, logRead, drained,
          requests, stopCalls, lastStop>>

NoResult == [kind |-> "none"]
NoTick == [elapsed |-> -1, loglen |-> 0, line |-> 0, outcome |-> "none", stop |-> "none"]
NoArgs == <<>>
NoStop == [url |-> UrlTok(0), outcome |-> [conn |-> TRUE, status |-> 0], result |-> "none"]

\* ------------------------------------------------------ pure functions
get_action_package_path(name) == <<"~", "actions_bootstrapper", name>>

full_action_path == get_action_package_path(action_package_name)

url == UrlTok(available_port)

\* The three return strings of start_action_server and the precondition
\* failure, as records of the fixed text and the embedded values.
NotExistMsg(path) == [kind |-> "Action package does not exist.", path |-> path]
StartedMsg(u) == [kind |-> "Action Server started at", url |-> u]
FailedMsg(so, se) == [kind |-> "Failed to start.", stdout |-> so, stderr |-> se]
TimedOutMsg(so, se) == [kind |-> "Process timed out.", stdout |-> so, stderr |-> se]

\* ScanFrom with the two tests of a line in the opposite order.
RECURSIVE ScanFromErrFirst(_, _, _)
ScanFromErrFirst(lines, i, u) ==
    IF i > Len(lines) THEN [outcome |-> "none", line |-> 0]
    ELSE IF Contains(lines[i], ErrTok) THEN [outcome |-> "failed", line |-> i]
    ELSE IF Contains(lines[i], u) THEN [outcome |-> "ready", line |-> i]
    ELSE ScanFromErrFirst(lines, i + 1, u)

\* ScanFrom looking for the url in the whole file before any error marker.
RECURSIVE ScanFromUrlAnywhere(_, _, _)
ScanFromUrlAnywhere(lines, i, u) ==
    IF \E k \in i .. Len(lines) : Contains(lines[k], u)
    THEN [outcome |-> "ready", line |-> CHOOSE k \in i .. Len(lines) : Contains(lines[k], u)]
    ELSE IF i > Len(lines) THEN [outcome |-> "none", line |-> 0]
    ELSE IF Contains(lines[i], ErrTok) THEN [outcome |-> "failed", line |-> i]
    ELSE ScanFromUrlAnywhere(lines, i + 1, u)

\* for line in lines: url first, then the error marker, line by line
RECURSIVE ScanFrom(_, _, _)
ScanFrom(lines, i, u) ==
    IF i > Len(lines) THEN [outcome |-> "none", line |-> 0]
    ELSE IF Contains(lines[i], u) THEN [outcome |-> "ready", line |-> i]
    ELSE IF Contains(lines[i], ErrTok) THEN [outcome |-> "failed", line |-> i]
    ELSE ScanFrom(lines, i + 1, u)

\* Something accepts connections on loopback port p.
Listening(p) ==
    \/ p \in bound
    \/ child = "serving" /\ childArgs[2] = p

\* Outcomes of sema4ai_http.post: ConnectionError, or a response status.
ConnErr == [conn |-> FALSE, status |-> 0]
Statuses == {200, 404, 500}
PostOutcomes(u) ==
    {ConnErr} \cup
    (IF Listening(u.port) THEN {[conn |-> TRUE, status |-> s] : s \in Statuses} ELSE {})

ShutdownRequest(u) == [method |-> "POST", url |-> u, path |-> "/api/shutdown"]

\* stop_action_server without the except clause's own message.
stop_action_server_no_except(outcome) ==
    IF outcome.conn /\ outcome.status = 200 THEN "Successfully shutdown the action server"
    ELSE "Failed to stop the action server"

stop_action_server(outcome) ==
    IF ~outcome.conn THEN "Could not connect to the server"
    ELSE IF outcome.status = 200 THEN "Successfully shutdown the action server"
    ELSE "Failed to stop the action server"

\* ------------------------------------------------------------------ Init
\* No call made yet: nothing probed, spawned, read, sent or returned.
Fresh ==
    /\ action_package_name \in PackageNames
    /\ sock = 0
    /\ probes = 0
    /\ available_port = 0
    /\ child = "none"
    /\ childArgs = NoArgs
    /\ start_time = 0
    /\ now = 0
    /\ staleLen = 0
    /\ outPipe = <<>>
    /\ errPipe = <<>>
    /\ result = NoResult
    /\ tick = NoTick
    /\ logRead = FALSE
    /\ drained = FALSE
    /\ requests = <<>>
    /\ stopCalls = 0
    /\ lastStop = NoStop

\* The package directory may be missing; the log file may be left over
\* from an earlier launch of the same package.
Init ==
    /\ Fresh
    /\ dirExists \in BOOLEAN
    /\ bound \in SUBSET BusyPorts
    /\ pc = "idle"
    /\ probe_start = 0
    /\ port = 0
    /\ log \in SeqsUpTo(LogLines, MaxLogLen - 1)
    /\ logExists \in (IF log = <<>> THEN BOOLEAN ELSE {TRUE})
    /\ (~dirExists => ~logExists)

\* ------------------------------------------------- start_action_server
\* Call without the os.path.exists test.
CallNoCheck ==
    /\ pc = "idle"
    /\ result' = result
    /\ pc' = "probe"
    /\ probe_start' = start_port
    /\ port' = start_port
    /\ UNCHANGED <<action_package_name, dirExists, bound, sock, probes,
                   available_port, child, childArgs, start_time, now,
                   logExists, log, staleLen, outPipe, errPipe, tick, logRead,
                   drained, requests, stopCalls, lastStop>>

\* lines 471-479: the precondition, then the start of the port search
Call ==
    /\ pc = "idle"
    /\ IF ~dirExists
       THEN /\ result' = NotExistMsg(full_action_path)
            /\ pc' = "done"
            /\ UNCHANGED <<probe_start, port>>
       ELSE /\ result' = result
            /\ pc' = "probe"
            /\ probe_start' = start_port
            /\ port' = start_port
    /\ UNCHANGED <<action_package_name, dirExists, bound, sock, probes,
                   available_port, child, childArgs, start_time, now,
                   logExists, log, staleLen, outPipe, errPipe, tick, logRead,
                   drained, requests, stopCalls, lastStop>>

\* ProbeBind stepping over a port after a failed bind.
ProbeBindSkip ==
    /\ pc = "probe"
    /\ port <= start_port + MaxProbeOffset
    /\ probes' = probes + 1
    /\ IF ~Listening(port)
       THEN /\ sock' = port
            /\ pc' = "probed"
            /\ port' = port
       ELSE /\ sock' = 0
            /\ pc' = "probe"
            /\ port' = port + 2
    /\ UNCHANGED <<action_package_name, dirExists, bound, probe_start, available_port,
                   child, childArgs, start_time, now, logExists, log,
                   staleLen, outPipe, errPipe, result, tick, logRead, drained,
                   requests, stopCalls, lastStop>>

\* find_available_port, one iteration: s.bind(("127.0.0.1", port))
ProbeBind ==
    /\ pc = "probe"
    /\ port <= start_port + MaxProbeOffset
    /\ probes' = probes + 1
    /\ IF ~Listening(port)
       THEN /\ sock' = port
            /\ pc' = "probed"
            /\ port' = port
       ELSE /\ sock' = 0
            /\ pc' = "probe"
            /\ port' = port + 1
    /\ UNCHANGED <<action_package_name, dirExists, bound, probe_start, available_port,
                   child, childArgs, start_time, now, logExists, log,
                   staleLen, outPipe, errPipe, result, tick, logRead, drained,
                   requests, stopCalls, lastStop>>

\* find_available_port: return port, the with-block closes the socket
ProbeReturn ==
    /\ pc = "probed"
    /\ sock' = 0
    /\ available_port' = port
    /\ pc' = "spawn"
    /\ UNCHANGED <<action_package_name, dirExists, bound, probe_start, port, probes,
                   child, childArgs, start_time, now, logExists, log,
                   staleLen, outPipe, errPipe, result, tick, logRead, drained,
                   requests, stopCalls, lastStop>>

\* Popen handing the child the first port tried instead of the port found.
PopenStartPort ==
    /\ pc = "spawn"
    /\ child' = "starting"
    /\ childArgs' = <<full_action_path, start_port, Secrets>>
    /\ start_time' = now
    /\ staleLen' = Len(log)
    /\ pc' = "grace"
    /\ UNCHANGED <<action_package_name, dirExists, bound, probe_start, port, sock, probes,
                   available_port, now, logExists, log, outPipe, errPipe,
                   result, tick, logRead, drained, requests, stopCalls,
                   lastStop>>

\* subprocess.Popen(start_command, stdout=PIPE, stderr=PIPE), start_time
Popen ==
    /\ pc = "spawn"
    /\ child' = "starting"
    /\ childArgs' = <<full_action_path, available_port, Secrets>>
    /\ start_time' = now
    /\ staleLen' = Len(log)
    /\ pc' = "grace"
    /\ UNCHANGED <<action_package_name, dirExists, bound, probe_start, port, sock, probes,
                   available_port, now, logExists, log, outPipe, errPipe,
                   result, tick, logRead, drained, requests, stopCalls,
                   lastStop>>

\* time.sleep(1.0): the grace delay and the delay between two polls
Sleep ==
    /\ pc \in {"grace", "sleep"}
    /\ \E d \in 1 .. MaxSleep : now' = now + d
    /\ pc' = "loop"
    /\ UNCHANGED <<action_package_name, dirExists, bound, probe_start, port, sock, probes,
                   available_port, child, childArgs, start_time, logExists,
                   log, staleLen, outPipe, errPipe, result, tick, logRead,
                   drained, requests, stopCalls, lastStop>>

\* time.time() - start_time
Elapsed == now - start_time

\* TickTimeout without the call of stop_action_server.
TickTimeoutNoShutdown ==
    /\ requests' = requests
    /\ tick' = [elapsed |-> Elapsed, loglen |-> Len(log), line |-> 0,
                outcome |-> "timed_out", stop |-> "none"]
    /\ pc' = "drain_timeout"
    /\ UNCHANGED <<result, logRead>>

\* lines 511-519 up to the pipe reads: stop_action_server(url), result dropped
TickTimeout ==
    \E o \in PostOutcomes(url) :
        /\ requests' = Append(requests, ShutdownRequest(url))
        /\ tick' = [elapsed |-> Elapsed, loglen |-> Len(log), line |-> 0,
                    outcome |-> "timed_out", stop |-> stop_action_server(o)]
        /\ pc' = "drain_timeout"
        /\ UNCHANGED <<result, logRead>>

\* TickScan calling stop_action_server when it finds the error marker.
TickScanShutdownOnFailure ==
    IF logExists
    THEN LET s == ScanFrom(log, 1, url) IN
         /\ logRead' = TRUE
         /\ IF s.outcome = "ready"
            THEN /\ result' = StartedMsg(url)
                 /\ requests' = requests
                 /\ tick' = [elapsed |-> Elapsed, loglen |-> Len(log), line |-> s.line,
                             outcome |-> "ready", stop |-> "none"]
                 /\ pc' = "done"
            ELSE IF s.outcome = "failed"
            THEN /\ result' = result
                 /\ requests' = Append(requests, ShutdownRequest(url))
                 /\ tick' = [elapsed |-> Elapsed, loglen |-> Len(log), line |-> s.line,
                             outcome |-> "failed", stop |-> "none"]
                 /\ pc' = "drain_failed"
            ELSE /\ result' = result
                 /\ requests' = requests
                 /\ tick' = tick
                 /\ pc' = "sleep"
    ELSE /\ pc' = "sleep"
         /\ UNCHANGED <<result, tick, logRead, requests>>

\* lines 520-540: the log, if it exists, is read in full and scanned
TickScan ==
    IF logExists
    THEN LET s == ScanFrom(log, 1, url) IN
         /\ logRead' = TRUE
         /\ requests' = requests
         /\ IF s.outcome = "ready"
            THEN /\ result' = StartedMsg(url)
                 /\ tick' = [elapsed |-> Elapsed, loglen |-> Len(log), line |-> s.line,
                             outcome |-> "ready", stop |-> "none"]
                 /\ pc' = "done"
            ELSE IF s.outcome = "failed"
            THEN /\ result' = result
                 /\ tick' = [elapsed |-> Elapsed, loglen |-> Len(log), line |-> s.line,
                             outcome |-> "failed", stop |-> "none"]
                 /\ pc' = "drain_failed"
            ELSE /\ result' = result
                 /\ tick' = tick
                 /\ pc' = "sleep"
    ELSE /\ pc' = "sleep"
         /\ UNCHANGED <<result, tick, logRead, requests>>

\* PollTick scanning the log before it tests the timeout.
PollTickScanFirst ==
    /\ pc = "loop"
    /\ IF logExists /\ ScanFrom(log, 1, url).outcome # "none" THEN TickScan
       ELSE IF Elapsed > timeout THEN TickTimeout
       ELSE TickScan
    /\ UNCHANGED <<action_package_name, dirExists, bound, probe_start, port, sock, probes,
                   available_port, child, childArgs, start_time, now,
                   logExists, log, staleLen, outPipe, errPipe, drained,
                   stopCalls, lastStop>>

\* One iteration of the while loop up to its return, sleep or pipe read.
PollTick ==
    /\ pc = "loop"
    /\ IF Elapsed > timeout THEN TickTimeout ELSE TickScan
    /\ UNCHANGED <<action_package_name, dirExists, bound, probe_start, port, sock, probes,
                   available_port, child, childArgs, start_time, now,
                   logExists, log, staleLen, outPipe, errPipe, drained,
                   stopCalls, lastStop>>

\* process.stdout.read() then process.stderr.read(): both read to
\* end-of-file, which the pipes reach when the child has closed them.
Drain ==
    /\ pc \in {"drain_failed", "drain_timeout"}
    /\ child = "exited"
    /\ drained' = TRUE
    /\ result' = IF pc = "drain_failed" THEN FailedMsg(outPipe, errPipe)
                 ELSE TimedOutMsg(outPipe, errPipe)
    /\ pc' = "done"
    /\ UNCHANGED <<action_package_name, dirExists, bound, probe_start, port, sock, probes,
                   available_port, child, childArgs, start_time, now,
                   logExists, log, staleLen, outPipe, errPipe, tick, logRead,
                   requests, stopCalls, lastStop>>

\* -------------------------------------------------- stop_action_server
\* The action called on its own: POST, then the classification.
StopAction ==
    /\ pc = "idle"
    /\ stopCalls < MaxStopCalls
    /\ \E p \in UrlPorts : \E o \in PostOutcomes(UrlTok(p)) :
        /\ requests' = Append(requests, ShutdownRequest(UrlTok(p)))
        /\ lastStop' = [url |-> UrlTok(p), outcome |-> o, result |-> stop_action_server(o)]
    /\ stopCalls' = stopCalls + 1
    /\ UNCHANGED <<action_package_name, dirExists, bound, pc, probe_start, port, sock,
                   probes, available_port, child, childArgs, start_time, now,
                   logExists, log, staleLen, outPipe, errPipe, result, tick,
                   logRead, drained>>

\* ------------------------------------------------ the child, the machine
ChildAppendLog ==
    /\ pc # "done"
    /\ child \in {"starting", "serving"}
    /\ Len(log) < MaxLogLen
    /\ \E l \in LogLines : log' = Append(log, l)
    /\ logExists' = TRUE
    /\ UNCHANGED <<action_package_name, dirExists, bound, pc, probe_start, port, sock,
                   probes, available_port, child, childArgs, start_time, now,
                   staleLen, outPipe, errPipe, result, tick, logRead, drained,
                   requests, stopCalls, lastStop>>

ChildWriteStdout ==
    /\ pc # "done"
    /\ child \in {"starting", "serving"}
    /\ Len(outPipe) < MaxPipeLen
    /\ outPipe' = Append(outPipe, "out")
    /\ UNCHANGED <<action_package_name, dirExists, bound, pc, probe_start, port, sock,
                   probes, available_port, child, childArgs, start_time, now,
                   logExists, log, staleLen, errPipe, result, tick, logRead,
                   drained, requests, stopCalls, lastStop>>

ChildWriteStderr ==
    /\ pc # "done"
    /\ child \in {"starting", "serving"}
    /\ Len(errPipe) < MaxPipeLen
    /\ errPipe' = Append(errPipe, "err")
    /\ UNCHANGED <<action_package_name, dirExists, bound, pc, probe_start, port, sock,
                   probes, available_port, child, childArgs, start_time, now,
                   logExists, log, staleLen, outPipe, result, tick, logRead,
                   drained, requests, stopCalls, lastStop>>

\* The child binds the port it was given, if that port is still free.
ChildServe ==
    /\ pc # "done"
    /\ child = "starting"
    /\ ~Listening(childArgs[2])
    /\ child' = "serving"
    /\ UNCHANGED <<action_package_name, dirExists, bound, pc, probe_start, port, sock,
                   probes, available_port, childArgs, start_time, now,
                   logExists, log, staleLen, outPipe, errPipe, result, tick,
                   logRead, drained, requests, stopCalls, lastStop>>

\* The child exits: its pipes reach end-of-file and its port is released.
ChildExit ==
    /\ pc # "done"
    /\ child \in {"starting", "serving"}
    /\ child' = "exited"
    /\ UNCHANGED <<action_package_name, dirExists, bound, pc, probe_start, port, sock,
                   probes, available_port, childArgs, start_time, now,
                   logExists, log, staleLen, outPipe, errPipe, result, tick,
                   logRead, drained, requests, stopCalls, lastStop>>

\* Another process binds a free loopback port.
OtherBind ==
    /\ pc # "done"
    /\ \E p \in BusyPorts :
        /\ ~Listening(p)
        /\ p # sock
        /\ bound' = bound \cup {p}
    /\ UNCHANGED <<action_package_name, dirExists, pc, probe_start, port, sock, probes,
                   available_port, child, childArgs, start_time, now,
                   logExists, log, staleLen, outPipe, errPipe, result, tick,
                   logRead, drained, requests, stopCalls, lastStop>>

\* A process listening on a loopback port stops.
OtherRelease ==
    /\ pc # "done"
    /\ \E p \in bound : bound' = bound \ {p}
    /\ UNCHANGED <<action_package_name, dirExists, pc, probe_start, port, sock, probes,
                   available_port, child, childArgs, start_time, now,
                   logExists, log, staleLen, outPipe, errPipe, result, tick,
                   logRead, drained, requests, stopCalls, lastStop>>

Next ==
    \/ Call
    \/ ProbeBind
    \/ ProbeReturn
    \/ Popen
    \/ Sleep
    \/ PollTick
    \/ Drain
    \/ ChildAppendLog
    \/ ChildWriteStdout
    \/ ChildWriteStderr
    \/ ChildServe
    \/ ChildExit
    \/ OtherBind

Spec == Init /\ [][Next]_vars

\* The single thread of control keeps running and its sleeps end (the wall
\* clock advances); nothing is assumed of the child or of other processes.
LiveSpec ==
    /\ Spec
    /\ WF_vars(Call)
    /\ WF_vars(ProbeBind)
    /\ WF_vars(ProbeReturn)
    /\ WF_vars(Popen)
    /\ WF_vars(Sleep)
    /\ WF_vars(PollTick)
    /\ WF_vars(Drain)

\* find_available_port on its own: any start port, any set of bound ports.
AllocInit ==
    /\ Fresh
    /\ dirExists = TRUE
    /\ bound \in SUBSET ProbePorts
    /\ pc = "probe"
    /\ probe_start \in ProbePorts
    /\ port = probe_start
    /\ log = <<>>
    /\ logExists = FALSE

AllocNext ==
    \/ ProbeBind
    \/ ProbeReturn

AllocSpec == AllocInit /\ [][AllocNext]_vars

\* stop_action_server on its own, against whatever listens on the machine.
StopInit ==
    /\ Fresh
    /\ dirExists = TRUE
    /\ bound \in SUBSET UrlPorts
    /\ pc = "idle"
    /\ probe_start = 0
    /\ port = 0
    /\ log = <<>>
    /\ logExists = FALSE

StopNext ==
    \/ StopAction
    \/ OtherRelease

StopSpec == StopInit /\ [][StopNext]_vars

TypeOK ==
    /\ pc \in {"idle", "probe", "probed", "spawn", "grace", "loop", "sleep",
               "drain_failed", "drain_timeout", "done"}
    /\ child \in {"none", "starting", "serving", "exited"}
    /\ now >= 0
    /\ Len(log) <= MaxLogLen

\* ------------------------------------------------------------ the claims
\* A poll tick is the step that leaves pc = "loop".
IsTick == pc = "loop" /\ pc' # "loop"

HasUrl(line) == \E k \in DOMAIN line : line[k] = [text |-> "http://localhost:", port |-> available_port]
HasErr(line) == \E k \in DOMAIN line : line[k].text = "Error executing action-server"

\* Some line holds the url and no earlier line holds the error marker.
UrlBeforeErr(lines) ==
    \E i \in DOMAIN lines : HasUrl(lines[i]) /\ \A j \in 1 .. (i - 1) : ~HasErr(lines[j])

\* Some line holds the error marker and no line up to it holds the url.
ErrBeforeUrl(lines) ==
    \E i \in DOMAIN lines : HasErr(lines[i]) /\ \A j \in 1 .. i : ~HasUrl(lines[j])

\* C1: a poll tick taken with at most 60 seconds elapsed, on a log holding a
\* line with the expected url and no error marker on an earlier line, returns
\* "Action Server started at <url>" with exactly that url, whatever other
\* lines the log holds.
C1_UrlLineGivesStarted ==
    [][(IsTick /\ now - start_time <= 60 /\ logExists /\ UrlBeforeErr(log))
        => (pc' = "done"
            /\ result' = [kind |-> "Action Server started at",
                          url |-> [text |-> "http://localhost:", port |-> available_port]])]_vars

C1_Witness ==
    /\ pc = "done"
    /\ result.kind = "Action Server started at"
    /\ result.url.port = childArgs[2]
    /\ tick.line = 2
    /\ ~HasUrl(log[1]) /\ ~HasErr(log[1])
    /\ tick.line > staleLen

\* C2: with the append-only log, a poll tick that finds the error marker on
\* a line before any line with the url goes on to return "Failed to start."
\* with the child's stdout and stderr as read from its pipes, and the success
\* message is never the result for such a log, also when a url line follows
\* the error line on the same tick or is appended later.
C2_ErrFirstGivesFailed ==
    [][/\ (IsTick /\ now - start_time <= 60 /\ logExists /\ ErrBeforeUrl(log))
            => (pc' = "drain_failed" /\ result' = [kind |-> "none"])
       /\ (pc = "drain_failed" /\ pc' # pc)
            => (pc' = "done"
                /\ result' = [kind |-> "Failed to start.", stdout |-> outPipe, stderr |-> errPipe])
       /\ (ErrBeforeUrl(log') => result'.kind # "Action Server started at")]_vars

C2_Witness ==
    /\ pc = "done"
    /\ result = [kind |-> "Failed to start.", stdout |-> <<"out">>, stderr |-> <<>>]
    /\ tick.line = 1
    /\ Len(log) = 2 /\ tick.loglen = 1
    /\ HasUrl(log[2])

\* C3: a call whose poll ticks within the timeout window see neither marker
\* returns "Process timed out." with the child's stdout and stderr, and the
\* whole run sends exactly one request, the POST to {url}/api/shutdown, whose
\* outcome the returned message does not depend on.
C3_NoMarkerTimesOut ==
    [][/\ (IsTick /\ ~(now - start_time <= 60 /\ logExists
                        /\ \E i \in DOMAIN log : HasUrl(log[i]) \/ HasErr(log[i])))
            => \/ pc' = "sleep" /\ now - start_time <= 60 /\ requests' = <<>>
               \/ /\ pc' = "drain_timeout"
                  /\ now - start_time > 60
                  /\ requests' = <<[method |-> "POST", url |-> url, path |-> "/api/shutdown"]>>
       /\ (pc = "drain_timeout" /\ pc' # pc)
            => (/\ pc' = "done"
                /\ result' = [kind |-> "Process timed out.", stdout |-> outPipe, stderr |-> errPipe]
                /\ requests' = requests)
       /\ Len(requests') <= 1]_vars

C3_Witness ==
    /\ pc = "done"
    /\ result.kind = "Process timed out."
    /\ tick.stop = "Could not connect to the server"
    /\ Len(requests) = 1
    /\ \A i \in DOMAIN log : ~HasUrl(log[i]) /\ ~HasErr(log[i])

\* C4: when the package directory does not exist the call returns
\* "Action package '<path>' does not exist." and nothing else has happened:
\* no port probed, no child spawned, the log not read, no request sent.
C4_MissingDirectory ==
    (~dirExists /\ pc # "idle")
        => /\ pc = "done"
           /\ result = [kind |-> "Action package does not exist.",
                        path |-> <<"~", "actions_bootstrapper", action_package_name>>]
           /\ probes = 0 /\ sock = 0 /\ port = 0 /\ available_port = 0
           /\ child = "none" /\ childArgs = <<>>
           /\ ~logRead /\ ~drained
           /\ requests = <<>>

C4_Witness == ~dirExists /\ pc = "done" /\ bound # {}

\* C5: a stop_action_server call sends exactly one POST to {url}/api/shutdown
\* and returns "Could not connect to the server" when the connection fails
\* (always so when nothing listens at the url), "Successfully shutdown the
\* action server" on status 200 and "Failed to stop the action server" on
\* any other status.
C5_StopClassifies ==
    [][(stopCalls' # stopCalls)
        => /\ stopCalls' = stopCalls + 1
           /\ Len(requests') = Len(requests) + 1
           /\ SubSeq(requests', 1, Len(requests)) = requests
           /\ requests'[Len(requests')] =
                [method |-> "POST", url |-> lastStop'.url, path |-> "/api/shutdown"]
           /\ (~lastStop'.outcome.conn
                => lastStop'.result = "Could not connect to the server")
           /\ (lastStop'.outcome.conn /\ lastStop'.outcome.status = 200
                => lastStop'.result = "Successfully shutdown the action server")
           /\ (lastStop'.outcome.conn /\ lastStop'.outcome.status # 200
                => lastStop'.result = "Failed to stop the action server")
           /\ (lastStop'.url.port \notin bound
                => lastStop'.result = "Could not connect to the server")]_vars

C5_Witness ==
    /\ stopCalls = 2
    /\ requests[1] = requests[2]
    /\ lastStop.url.port \notin bound
    /\ lastStop.result = "Could not connect to the server"

\* C6: find_available_port(start) returns the smallest port >= start that no
\* process has bound: start itself when it is free, a greater port when it is
\* bound; it has then released every socket it bound.
C6_SmallestFreePort ==
    (pc = "spawn")
        => /\ available_port >= probe_start
           /\ available_port \notin bound
           /\ \A q \in probe_start .. (available_port - 1) : q \in bound
           /\ (probe_start \notin bound => available_port = probe_start)
           /\ (probe_start \in bound => available_port > probe_start)
           /\ sock = 0
           /\ probes = available_port - probe_start + 1

C6_Witness ==
    /\ pc = "spawn"
    /\ available_port = probe_start + 2
    /\ probe_start + 3 \notin bound

\* C7: every call on an existing directory eventually returns one of the
\* three terminal messages, the pipe reads of the FAILED and TIMED_OUT
\* transitions completing also while the child runs with its pipes open.
C7_EveryCallReturns ==
    dirExists => <>(pc = "done"
                    /\ result.kind \in {"Action Server started at", "Failed to start.",
                                        "Process timed out."})

\* C8: the line that makes a poll tick decide READY or FAILED was written by
\* the child of this call, never a line the log held before the spawn.
C8_OnlyLinesOfThisChild ==
    (tick.outcome \in {"ready", "failed"}) => (tick.line > staleLen)

\* C9: a poll tick tests the timeout before it looks at the log: with more
\* than 60 seconds elapsed it takes the TIMED_OUT transition whatever the log
\* holds, and it takes the READY or FAILED transition only with at most 60
\* seconds elapsed.
C9_TimeoutTestedFirst ==
    [][IsTick
        => /\ (now - start_time > 60)
                => (pc' = "drain_timeout" /\ result' = result /\ logRead' = logRead)
           /\ (pc' \in {"done", "drain_failed"}) => (now - start_time <= 60)]_vars

C9_Witness ==
    /\ tick.outcome = "timed_out"
    /\ tick.elapsed > 60
    /\ \E i \in 1 .. tick.loglen : HasUrl(log[i])
    /\ pc = "done"
    /\ result.kind = "Process timed out."

\* C10: the call sends a shutdown request only in the TIMED_OUT transition;
\* READY, FAILED and the precondition failure send none; READY leaves the
\* child's pipes unread, which are read only on FAILED and TIMED_OUT.
C10_ShutdownOnlyOnTimeout ==
    /\ (requests # <<>>) => (tick.outcome = "timed_out" /\ pc \in {"drain_timeout", "done"})
    /\ (tick.outcome \in {"ready", "failed"}) => (requests = <<>>)
    /\ (result.kind = "Action Server started at") => (~drained /\ requests = <<>>)
    /\ (result.kind = "Action package does not exist.") => (~drained /\ requests = <<>>)
    /\ drained => /\ tick.outcome \in {"failed", "timed_out"}
                  /\ result.kind \in {"Failed to start.", "Process timed out."}
    /\ (pc = "done" /\ tick.outcome \in {"failed", "timed_out"}) => drained

C10_Witness ==
    /\ pc = "done"
    /\ result.kind = "Action Server started at"
    /\ child = "exited"
    /\ outPipe # <<>> /\ errPipe # <<>>
    /\ ~drained
    /\ requests = <<>>

\* C11: a launch runs the port search once and holds at most one port, the
\* one handed to the child and used in the polled url and in the shutdown
\* request; the search has released the port when it returns, and the child
\* is spawned with it whatever has bound it since, with no further bind
\* attempt by the launcher.
C11_OnePortNoRecheck ==
    [][/\ (available_port # 0) => (available_port' = available_port)
       /\ (pc \notin {"idle", "probe"})
            => (pc' # "probe" /\ probes' = probes /\ sock' \in {0, sock} /\ port' = port)
       /\ (pc' # "probed") => (sock' = 0)
       /\ (sock' # 0) => (sock' = port' /\ sock' \notin bound' /\ available_port' = 0)
       /\ (pc = "probed" /\ pc' # pc) => (available_port' = sock /\ sock' = 0)
       /\ (pc = "spawn" /\ pc' # pc)
            => (child' = "starting" /\ childArgs'[2] = available_port /\ bound' = bound)
       /\ (child' # "none")
            => /\ childArgs'[2] = available_port'
               /\ (result'.kind = "Action Server started at"
                     => result'.url = [text |-> "http://localhost:", port |-> childArgs'[2]])
               /\ (requests' # <<>>
                     => requests'[1].url = [text |-> "http://localhost:", port |-> childArgs'[2]])]_vars

\* The port was free when probed, another process holds it now, and the
\* child, which has not bound it yet, was spawned with it.
C11_Witness ==
    /\ child = "starting"
    /\ probes = 1
    /\ childArgs[2] = 8080
    /\ childArgs[2] \in bound
    /\ sock = 0
    /\ pc = "grace"
    /\ now = start_time

====
